---- MODULE Spec2Model ----
(***************************************************************************)
(* Model of package cfg's Datastar attribute catalog                      *)
(* (src/cfg/extensions_datastar.go): the modifier registry and its         *)
(* validate() pass, the documentation-link check doc(), the package-level  *)
(* initialisation of datastarModifiers and DatastarExtensions, and the     *)
(* wire format of the builder methods that src/tests/datastar_test.go      *)
(* exercises.                                                              *)
(*                                                                         *)
(* Strings are TLA+ strings.  Two descriptions of the source hold non-ASCII*)
(* characters (U+2019 at line 26, U+2013 at line 359); they are written    *)
(* here as ' and -.  Both occur after byte 30 of their description.        *)
(***************************************************************************)
EXTENDS Integers, Sequences, FiniteSets, TLC

VARIABLES
    lit,                \* the registry composite literal handed to validate(): field -> pointer
    edit,               \* the doc(description, url) arguments that differ from the catalog literal
    heap,               \* pointer -> Attribute_Custom_Modifier descriptor
    pc,                 \* position of the package initialisation
    todo,               \* package-level variables still to initialise, in order
    datastarModifiers,  \* the package variable (zero value: every field nil)
    building,           \* elements of the DatastarExtensions literal evaluated so far
    DatastarExtensions, \* the package variable (zero value: nil slice)
    cur,                \* the doc() call in progress: its parsed URL and its response
    inflight,           \* catalog indexes whose http.Get has been issued and not answered
    events,             \* history: what the documentation checks did, in order
    nInit,              \* history: how often each package variable was initialised
    panicValue,         \* the value of the panic that aborted initialisation
    el,                 \* the element under construction by the builder methods
    out,                \* the buffer the element was last rendered into
    rendered,           \* whether out holds a rendering of el
    test,               \* the line of the test case that built el, 0 if none did
    last,               \* history: the last builder call made on el and el before it
    prevOut,            \* history: the rendering of el before the one in out, "" if none
    pool                \* the content of the buffer bytebufferpool.Get hands out next

vars == <<lit, edit, heap, pc, todo, datastarModifiers, building, DatastarExtensions,
          cur, inflight, events, nInit, panicValue, el, out, rendered, test, last,
          prevOut, pool>>

(***************************************************************************)
(* Bounds of the model.                                                    *)
(***************************************************************************)
MaxUnset == 2   \* registry literals with up to this many fields left nil
MaxMods == 2    \* modifiers on one element; a second attribute counts as MaxMods modifiers
MaxChainMods == 1   \* modifiers on an element further calls are made on, and of an If call

(***************************************************************************)
(* Value types (constructors of package cfg that are not part of src/).    *)
(***************************************************************************)
AttributeTypeBool == "bool"
AttributeTypeString == "string"
AttributeTypeDurationMs == "duration-ms"
AttributeTypeDurationSec == "duration-sec"

AttributeTypeCustomModifier(name, required, base) ==
    [Name |-> name, Required |-> required, Base |-> base]

AttributeTypeCustom(custom, base, mods) ==
    [Custom |-> custom, Base |-> base, Modifiers |-> mods]

(***************************************************************************)
(* The modifier registry.                                                  *)
(***************************************************************************)
Nil == 0

\* The fields of struct attributeCustomModifiers, in declaration order.
FieldOrder ==
    << "Capture", "Case", "DebounceMs", "DebounceMsLeading", "DebounceMsNoTrailing",
       "DebounceSec", "DebounceSecLeading", "DebounceSecNoTrailing", "DelayMs", "DelaySec",
       "DurationMs", "DurationMsLeading", "DurationSec", "DurationSecLeading", "Full",
       "IfMissing", "Half", "Once", "Outside", "Passive", "Prevent", "Self", "Stop", "Terse",
       "ThrottleMs", "ThrottleMsNoLeading", "ThrottleMsTrailing", "ThrotlleSec",
       "ThrotlleSecNoLeading", "ThrotlleSecTrailing", "ViewTransition", "Window" >>

Fields == {FieldOrder[i] : i \in 1..Len(FieldOrder)}

\* Mutants of Mod: the Prefix taken from the Name; the Suffix left out.
ModPrefixFromName(field, name, description, type, prefix, suffix) ==
    [Field |-> field, Name |-> name, Description |-> description, Type |-> type,
     Prefix |-> name, Suffix |-> suffix]

ModSuffixDropped(field, name, description, type, prefix, suffix) ==
    [Field |-> field, Name |-> name, Description |-> description, Type |-> type,
     Prefix |-> prefix, Suffix |-> ""]

Mod(field, name, description, type, prefix, suffix) ==
    [Field |-> field, Name |-> name, Description |-> description, Type |-> type,
     Prefix |-> prefix, Suffix |-> suffix]

\* The keyed elements of the datastarModifiers composite literal, in source order.
\* A Suffix the literal does not set is the zero value "".
datastarModifiersLiteral ==
    << Mod("Capture", "Capture", "Use capture event listener. Only works with built-in events.",
           AttributeTypeCustomModifier("capture", FALSE, AttributeTypeBool), "capture", ""),
       Mod("Case", "Case", "Converts the casing of the signal name.\n\t- 'camel' - Camel case: 'mySignal' (default)\n\t- 'kebab' - Kebab case: 'my-signal'\n\t- 'snake' - Snake case: 'my_signal'\n\t- 'pascal' - Pascal case: 'MySignal'",
           AttributeTypeCustomModifier("case", FALSE, AttributeTypeString), "case.", ""),
       Mod("DebounceMs", "DebounceMs", "Debounces the event handler",
           AttributeTypeCustomModifier("debounce", FALSE, AttributeTypeDurationMs), "debounce.", "ms"),
       Mod("DebounceMsLeading", "DebounceMsLeading", "Debounce the event listener in milliseconds with leading edge.",
           AttributeTypeCustomModifier("debounce", FALSE, AttributeTypeDurationMs), "debounce.", "ms.leading"),
       Mod("DebounceMsNoTrailing", "DebounceMsNoTrailing", "Debounce the event listener in milliseconds without trailing edge.",
           AttributeTypeCustomModifier("debounce", FALSE, AttributeTypeDurationMs), "debounce.", "ms.notrailing"),
       Mod("DebounceSec", "DebounceSec", "Debounces the event handler",
           AttributeTypeCustomModifier("debounce", FALSE, AttributeTypeDurationSec), "debounce.", "s"),
       Mod("DebounceSecLeading", "DebounceSecLeading", "Debounce the event listener in seconds with leading edge.",
           AttributeTypeCustomModifier("debounce", FALSE, AttributeTypeDurationSec), "debounce.", "s.leading"),
       Mod("DebounceSecNoTrailing", "DebounceSecNoTrailing", "Debounce the event listener in seconds without trailing edge.",
           AttributeTypeCustomModifier("debounce", FALSE, AttributeTypeDurationSec), "debounce.", "s.notrailing"),
       Mod("DelayMs", "DelayMs", "Delay the event listener in milliseconds.",
           AttributeTypeCustomModifier("delay", FALSE, AttributeTypeDurationMs), "delay.", "ms"),
       Mod("DelaySec", "DelaySec", "Delay the event listener in seconds.",
           AttributeTypeCustomModifier("delay", FALSE, AttributeTypeDurationSec), "delay.", "s"),
       Mod("DurationMs", "DurationMs", "Sets the interval duration in milliseconds.",
           AttributeTypeCustomModifier("duration", FALSE, AttributeTypeDurationMs), "duration.", "ms"),
       Mod("DurationMsLeading", "DurationMsLeading", "Sets the interval duration in milliseconds. Execute the first interval immediately.",
           AttributeTypeCustomModifier("duration", FALSE, AttributeTypeDurationMs), "duration.", "ms.leading"),
       Mod("DurationSec", "DurationSec", "Sets the interval duration in seconds.",
           AttributeTypeCustomModifier("duration", FALSE, AttributeTypeDurationSec), "duration.", "s"),
       Mod("DurationSecLeading", "DurationSecLeading", "Sets the interval duration in seconds. Execute the first interval immediately.",
           AttributeTypeCustomModifier("duration", FALSE, AttributeTypeDurationSec), "duration.", "s.leading"),
       Mod("Full", "Full", "Trigger when the full element is visible.",
           AttributeTypeCustomModifier("full", FALSE, AttributeTypeBool), "full", ""),
       Mod("IfMissing", "IfMissing", "Only patches signals if their keys do not already exist. This is useful for setting defaults without overwriting existing values.",
           AttributeTypeCustomModifier("ifmissing", FALSE, AttributeTypeBool), "ifmissing", ""),
       Mod("Half", "Half", "Trigger when half of the element is visible.",
           AttributeTypeCustomModifier("half", FALSE, AttributeTypeBool), "half", ""),
       Mod("Once", "Once", "Only run the expression once. Only works with built-in events.",
           AttributeTypeCustomModifier("once", FALSE, AttributeTypeBool), "once", ""),
       Mod("Outside", "Outside", "Triggers when the event is outside the element.",
           AttributeTypeCustomModifier("outside", FALSE, AttributeTypeBool), "outside", ""),
       Mod("Passive", "Passive", "Do not call preventDefault on the event listener. Only works with built-in events.",
           AttributeTypeCustomModifier("passive", FALSE, AttributeTypeBool), "passive", ""),
       Mod("Prevent", "Prevent", "Calls 'preventDefault' on the event listener.",
           AttributeTypeCustomModifier("prevent", FALSE, AttributeTypeBool), "prevent", ""),
       Mod("Self", "Self", "Only ignore the element itself, not its descendants.",
           AttributeTypeCustomModifier("self", FALSE, AttributeTypeBool), "self", ""),
       Mod("Stop", "Stop", "Calls 'stopPropagation' on the event listener.",
           AttributeTypeCustomModifier("stop", FALSE, AttributeTypeBool), "stop", ""),
       Mod("Terse", "Terse", "Outputs a more compact JSON format without extra whitespace. Useful for displaying filtered data inline.",
           AttributeTypeCustomModifier("terse", FALSE, AttributeTypeBool), "terse", ""),
       Mod("ThrottleMs", "ThrottleMs", "Throttles the event handler",
           AttributeTypeCustomModifier("throttleMs", FALSE, AttributeTypeDurationMs), "throttle.", "ms"),
       Mod("ThrottleMsNoLeading", "ThrottleMsNoLeading", "Throttle the event listener in milliseconds without leading edge.",
           AttributeTypeCustomModifier("throttle", FALSE, AttributeTypeDurationMs), "throttle.", "ms.noleading"),
       Mod("ThrottleMsTrailing", "ThrottleMsTrailing", "Throttle the event listener in milliseconds with trailing edge.",
           AttributeTypeCustomModifier("throttle", FALSE, AttributeTypeDurationMs), "throttle.", "ms.trailing"),
       Mod("ThrotlleSec", "ThrottleSec", "Throttles the event listener in seconds.",
           AttributeTypeCustomModifier("throtlleSec", FALSE, AttributeTypeDurationSec), "throttle.", "s"),
       Mod("ThrotlleSecNoLeading", "ThrottleSecNoLeading", "Throttle the event listener in seconds without leading edge.",
           AttributeTypeCustomModifier("throttle", FALSE, AttributeTypeDurationSec), "throttle.", "s.noleading"),
       Mod("ThrotlleSecTrailing", "ThrottleSecTrailing", "Throttle the event listener in seconds with trailing edge.",
           AttributeTypeCustomModifier("throttle", FALSE, AttributeTypeDurationSec), "throttle.", "s.trailing"),
       Mod("ViewTransition", "ViewTransition", "Wraps the expression in 'document.startViewTransition()' when the View Transition API is available.",
           AttributeTypeCustomModifier("viewtransition", FALSE, AttributeTypeBool), "viewtransition", ""),
       Mod("Window", "Window", "Attaches the event listener to the 'window' element.",
           AttributeTypeCustomModifier("window", FALSE, AttributeTypeBool), "window", "") >>

\* Each &pb.Attribute_Custom_Modifier{...} of the literal allocates one descriptor;
\* its pointer is its position in the literal.
Pointers == 1..Len(datastarModifiersLiteral)

AddrOf(field) == CHOOSE p \in Pointers : datastarModifiersLiteral[p].Field = field

HeapLiteral ==
    [p \in Pointers |->
        [Name |-> datastarModifiersLiteral[p].Name,
         Description |-> datastarModifiersLiteral[p].Description,
         Type |-> datastarModifiersLiteral[p].Type,
         Prefix |-> datastarModifiersLiteral[p].Prefix,
         Suffix |-> datastarModifiersLiteral[p].Suffix]]

\* The registry record the literal builds: every field set.
RegistryLiteral == [f \in Fields |-> AddrOf(f)]

\* The zero value of attributeCustomModifiers.
RegistryZero == [f \in Fields |-> Nil]

\* A registry literal in which the fields of `unset` were left out.
RegistryWithout(unset) == [f \in Fields |-> IF f \in unset THEN Nil ELSE AddrOf(f)]

RECURSIVE UnsetUpTo(_)
UnsetUpTo(n) ==
    IF n = 0 THEN {{}}
    ELSE LET S == UnsetUpTo(n - 1) IN S \cup {s \cup {f} : s \in S, f \in Fields}

\* Complete registry records other than the literal's: two fields share a descriptor.
RegistryAliased ==
    { [RegistryLiteral EXCEPT ![p[1]] = AddrOf(p[2])] :
        p \in {<<"Half", "Full">>, <<"ThrottleMs", "DebounceMs">>, <<"Window", "Capture">>} }

RegistryInputs == {RegistryWithout(u) : u \in UnsetUpTo(MaxUnset)}

(***************************************************************************)
(* attributeCustomModifiers.validate                                       *)
(***************************************************************************)
Returned(v) == [panicked |-> FALSE, value |-> v, panic |-> [kind |-> "none", msg |-> ""]]
Panicked(kind, msg) == [panicked |-> TRUE, value |-> RegistryZero, panic |-> [kind |-> kind, msg |-> msg]]

\* The loop of validate from field index i on: reflect visits the fields in
\* declaration order and the first nil one panics.
RECURSIVE validateFrom(_, _)
validateFrom(a, i) ==
    IF i > Len(FieldOrder) THEN Returned(a)
    ELSE IF a[FieldOrder[i]] = Nil
         THEN Panicked("string", "Modifier " \o FieldOrder[i] \o " is nil")
         ELSE validateFrom(a, i + 1)

\* Mutants of validate: the fields visited last to first; the result dropped for a
\* fresh record; the last field never visited (it is taken as set).
RECURSIVE validateDownFrom(_, _)
validateDownFrom(a, i) ==
    IF i < 1 THEN Returned(a)
    ELSE IF a[FieldOrder[i]] = Nil
         THEN Panicked("string", "Modifier " \o FieldOrder[i] \o " is nil")
         ELSE validateDownFrom(a, i - 1)

validateReversed(a) == validateDownFrom(a, Len(FieldOrder))

validateReturnsFresh(a) ==
    IF validateFrom(a, 1).panicked THEN validateFrom(a, 1) ELSE Returned(RegistryZero)

validateSkipsLast(a) ==
    LET r == validateFrom([a EXCEPT ![FieldOrder[Len(FieldOrder)]] = 1], 1)
    IN  IF r.panicked THEN r ELSE Returned(a)

validate(a) == validateFrom(a, 1)

(***************************************************************************)
(* Strings.                                                                *)
(***************************************************************************)
Char(s, i) == SubSeq(s, i, i)

Slice(s, from, to) == IF from > to THEN "" ELSE SubSeq(s, from, to)

\* strings.Index for a one-byte separator: the first position of c in s, 0 if none.
RECURSIVE IndexFrom(_, _, _)
IndexFrom(s, c, i) ==
    IF i > Len(s) THEN 0
    ELSE IF Char(s, i) = c THEN i ELSE IndexFrom(s, c, i + 1)

Index(s, c) == IndexFrom(s, c, 1)

\* strings.LastIndex for a one-byte separator.
RECURSIVE LastIndexFrom(_, _, _)
LastIndexFrom(s, c, i) ==
    IF i < 1 THEN 0
    ELSE IF Char(s, i) = c THEN i ELSE LastIndexFrom(s, c, i - 1)

LastIndex(s, c) == LastIndexFrom(s, c, Len(s))

HasPrefix(s, p) == Len(s) >= Len(p) /\ Slice(s, 1, Len(p)) = p

\* strings.Cut(s, c).
Cut(s, c) ==
    LET i == Index(s, c)
    IN  IF i = 0 THEN [before |-> s, after |-> "", found |-> FALSE]
        ELSE [before |-> Slice(s, 1, i - 1), after |-> Slice(s, i + 1, Len(s)), found |-> TRUE]

UpperLetters == "ABCDEFGHIJKLMNOPQRSTUVWXYZ"
LowerLetters == "abcdefghijklmnopqrstuvwxyz"
DigitChars == "0123456789"

IsLetter(c) == Index(UpperLetters, c) # 0 \/ Index(LowerLetters, c) # 0
IsDigit(c) == Index(DigitChars, c) # 0

\* The control bytes a TLA+ string can hold (bytes below 0x20).
IsCTL(c) == c \in {"\n", "\t", "\r", "\f"}

ToLowerChar(c) ==
    LET i == Index(UpperLetters, c) IN IF i = 0 THEN c ELSE Char(LowerLetters, i)

RECURSIVE ToLower(_)
ToLower(s) == IF s = "" THEN "" ELSE ToLowerChar(Char(s, 1)) \o ToLower(Slice(s, 2, Len(s)))

(***************************************************************************)
(* net/url as doc() uses it: url.Parse and URL.String, for URLs written *)
(* with letters, digits, the bytes : / # ? . - and control bytes.  Over    *)
(* these bytes no percent-escape is read, and the only byte String()       *)
(* escapes is a '#' inside the fragment.                                   *)
(***************************************************************************)
URLZero ==
    [Scheme |-> "", Opaque |-> "", Host |-> "", Path |-> "", OmitHost |-> FALSE,
     ForceQuery |-> FALSE, RawQuery |-> "", Fragment |-> ""]

ParseOK(u) == [err |-> "", url |-> u]
ParseErr(msg) == [err |-> msg, url |-> URLZero]

RECURSIVE stringContainsCTLByte(_)
stringContainsCTLByte(s) ==
    IF s = "" THEN FALSE
    ELSE IsCTL(Char(s, 1)) \/ stringContainsCTLByte(Slice(s, 2, Len(s)))

\* getScheme: (scheme, rest, err) of rawURL, scanning from byte i.
RECURSIVE getSchemeFrom(_, _)
getSchemeFrom(rawURL, i) ==
    IF i > Len(rawURL) THEN [scheme |-> "", path |-> rawURL, err |-> ""]
    ELSE LET c == Char(rawURL, i)
         IN  IF IsLetter(c) THEN getSchemeFrom(rawURL, i + 1)
             ELSE IF IsDigit(c) \/ c \in {"+", "-", "."}
                  THEN IF i = 1 THEN [scheme |-> "", path |-> rawURL, err |-> ""]
                       ELSE getSchemeFrom(rawURL, i + 1)
             ELSE IF c = ":"
                  THEN IF i = 1 THEN [scheme |-> "", path |-> "", err |-> "missing protocol scheme"]
                       ELSE [scheme |-> Slice(rawURL, 1, i - 1),
                             path |-> Slice(rawURL, i + 1, Len(rawURL)), err |-> ""]
             ELSE [scheme |-> "", path |-> rawURL, err |-> ""]

getScheme(rawURL) == getSchemeFrom(rawURL, 1)

RECURSIVE AllDigits(_)
AllDigits(s) == s = "" \/ (IsDigit(Char(s, 1)) /\ AllDigits(Slice(s, 2, Len(s))))

\* validOptionalPort: "" or ":" followed by digits.
validOptionalPort(port) ==
    port = "" \/ (Char(port, 1) = ":" /\ AllDigits(Slice(port, 2, Len(port))))

\* parseHost, for hosts without '[' and '%': only the port is validated.
parseHost(host) ==
    LET i == LastIndex(host, ":")
    IN  IF i # 0 /\ ~validOptionalPort(Slice(host, i, Len(host)))
        THEN [host |-> "", err |-> "invalid port after host"]
        ELSE [host |-> host, err |-> ""]

\* parse(rawURL, viaRequest = false): the URL before its '#'.
parse(rawURL) ==
    IF stringContainsCTLByte(rawURL) THEN ParseErr("net/url: invalid control character in URL")
    ELSE IF rawURL = "*" THEN ParseOK([URLZero EXCEPT !.Path = "*"])
    ELSE
    LET s == getScheme(rawURL)
        scheme == ToLower(s.scheme)
        force == Len(s.path) > 0 /\ Char(s.path, Len(s.path)) = "?"
                    /\ Index(s.path, "?") = Len(s.path)
        q == Cut(s.path, "?")
        rest == IF force THEN Slice(s.path, 1, Len(s.path) - 1) ELSE q.before
        query == IF force THEN "" ELSE q.after
        u0 == [URLZero EXCEPT !.Scheme = scheme, !.ForceQuery = force, !.RawQuery = query]
        hasAuthority == (scheme # "" \/ ~HasPrefix(rest, "///")) /\ HasPrefix(rest, "//")
        afterSlashes == Slice(rest, 3, Len(rest))
        j == Index(afterSlashes, "/")
        authority == IF j = 0 THEN afterSlashes ELSE Slice(afterSlashes, 1, j - 1)
        pathRest == IF j = 0 THEN "" ELSE Slice(afterSlashes, j, Len(afterSlashes))
        h == parseHost(authority)
    IN  IF s.err # "" THEN ParseErr(s.err)
        ELSE IF ~HasPrefix(rest, "/") /\ scheme # ""
             THEN ParseOK([u0 EXCEPT !.Opaque = rest])
        ELSE IF ~HasPrefix(rest, "/") /\ Index(Cut(rest, "/").before, ":") # 0
             THEN ParseErr("first path segment in URL cannot contain colon")
        ELSE IF hasAuthority
             THEN IF h.err # "" THEN ParseErr(h.err)
                  ELSE ParseOK([u0 EXCEPT !.Host = h.host, !.Path = pathRest])
        ELSE ParseOK([u0 EXCEPT !.Path = rest,
                                !.OmitHost = (scheme # "" /\ HasPrefix(rest, "/"))])

\* url.Parse: the fragment is cut off first and set on the parsed URL.
urlParse(rawURL) ==
    LET c == Cut(rawURL, "#")
        p == parse(c.before)
    IN  IF p.err # "" THEN p
        ELSE IF c.after = "" THEN p
        ELSE ParseOK([p.url EXCEPT !.Fragment = c.after])

\* escape(s, encodeFragment) over the model's bytes: '#' is the one byte escaped.
RECURSIVE escapeFragment(_)
escapeFragment(s) ==
    IF s = "" THEN ""
    ELSE (IF Char(s, 1) = "#" THEN "%23" ELSE Char(s, 1)) \o escapeFragment(Slice(s, 2, Len(s)))

\* URL.String.
urlString(u) ==
    LET scheme == IF u.Scheme # "" THEN u.Scheme \o ":" ELSE ""
        slashes == IF (u.Scheme # "" \/ u.Host # "") /\ ~(u.OmitHost /\ u.Host = "")
                      /\ (u.Host # "" \/ u.Path # "")
                   THEN "//" \o u.Host ELSE ""
        lead == IF u.Path # "" /\ Char(u.Path, 1) # "/" /\ u.Host # "" THEN "/" ELSE ""
        dot == IF scheme = "" /\ slashes = "" /\ lead = ""
                  /\ Index(Cut(u.Path, "/").before, ":") # 0
               THEN "./" ELSE ""
        body == IF u.Opaque # "" THEN u.Opaque ELSE slashes \o lead \o dot \o u.Path
        query == IF u.ForceQuery \/ u.RawQuery # "" THEN "?" \o u.RawQuery ELSE ""
        frag == IF u.Fragment # "" THEN "#" \o escapeFragment(u.Fragment) ELSE ""
    IN  scheme \o body \o query \o frag


(***************************************************************************)
(* The DatastarExtensions composite literal.                               *)
(***************************************************************************)
\* One element of the literal: Url is "" where Description is a plain string
\* and not a doc(...) call; Mods are the datastarModifiers fields it names.
\* Mutant of Ext: the Key ends in the colon that sets off a sub-key.
ExtKeyColon(name, key, description, url, custom, base, mods) ==
    [Name |-> name, Key |-> key \o ":", Description |-> description, Url |-> url,
     Custom |-> custom, Base |-> base, Mods |-> mods]

Ext(name, key, description, url, custom, base, mods) ==
    [Name |-> name, Key |-> key, Description |-> description, Url |-> url,
     Custom |-> custom, Base |-> base, Mods |-> mods]

TimingMods ==
    << "DelayMs", "DelaySec", "DebounceMs", "DebounceMsLeading", "DebounceMsNoTrailing",
       "DebounceSec", "DebounceSecLeading", "DebounceSecNoTrailing", "ThrottleMs",
       "ThrottleMsNoLeading", "ThrottleMsTrailing", "ThrotlleSec", "ThrotlleSecNoLeading",
       "ThrotlleSecTrailing" >>

DatastarExtensionsLiteral ==
    << Ext("DatastarAttr", "attr",
           "Sets the value of any HTML attribute to an expression, and keeps it in sync.",
           "https://data-star.dev/reference/attributes#data-attr",
           TRUE, AttributeTypeString, << >>),
       Ext("DatastarBind", "bind",
           "Creates a signal (if one doesn't already exist) and sets up two-way data binding between it and an element's value.",
           "https://data-star.dev/reference/attributes#data-bind",
           TRUE, AttributeTypeString, << >>),
       Ext("DatastarClass", "datastar-class",
           "Adds or removes a class to or from an element based on an expression.",
           "",
           TRUE, AttributeTypeString, <<"Case">>),
       Ext("DatastarComputed", "computed",
           "Creates a signal that is computed based on an expression. The computed signal is read-only, and its value is automatically updated when any signals in the expression are updated.",
           "https://data-star.dev/reference/attributes#data-computed",
           TRUE, AttributeTypeString, <<"Case">>),
       Ext("DatastarEffect", "effect",
           "Executes an expression on page load and whenever any signals in the expression change. This is useful for performing side effects, such as updating other signals, making requests to the backend, or manipulating the DOM.",
           "https://data-star.dev/reference/attributes#data-effect",
           FALSE, AttributeTypeString, << >>),
       Ext("DatastarIgnore", "ignore",
           "Datastar walks the entire DOM and applies plugins to each element it encounters. It's possible to tell Datastar to ignore an element and its descendants by placing a data-ignore attribute on it. This can be useful for preventing naming conflicts with third-party libraries, or when you are unable to escape user input.",
           "https://data-star.dev/reference/attributes#data-ignore",
           FALSE, AttributeTypeBool, <<"Self">>),
       Ext("DatastarIgnoreMorph", "ignore-morph",
           "Similar to the data-ignore attribute, the data-ignore-morph attribute tells the PatchElements watcher to skip processing an element and its children when morphing elements. This can be useful for preventing conflicts with third-party libraries that manipulate the DOM, or when you are unable to escape user input.",
           "https://data-star.dev/reference/attributes#data-ignore-morph",
           FALSE, AttributeTypeBool, << >>),
       Ext("DatastarIndicator", "indicator",
           "Creates a signal and sets its value to true while a fetch request is in flight, otherwise false. The signal can be used to show a loading indicator.",
           "https://data-star.dev/reference/attributes#data-indicator",
           FALSE, AttributeTypeString, <<"Case">>),
       Ext("DatastarInit", "init",
           "Runs an expression when the attribute is initialized. This can happen on page load, when an element is patched into the DOM, and any time the attribute is modified (via a backend action or otherwise).",
           "https://data-star.dev/reference/attributes#data-indicator",
           FALSE, AttributeTypeString, <<"DelayMs", "DelaySec", "ViewTransition">>),
       Ext("DatastarJSONSignals", "json-signals",
           "Sets the text content of an element to a reactive JSON stringified version of signals. Useful when troubleshooting an issue.",
           "https://data-star.dev/reference/attributes#data-json-signals",
           FALSE, AttributeTypeString, <<"Terse">>),
       Ext("DatastarOn", "on",
           "Attaches an event listener to an element, executing an expression whenever the event is triggered.",
           "https://data-star.dev/reference/attributes#data-on",
           TRUE, AttributeTypeString,
           <<"Once", "Passive", "Capture", "Case">> \o TimingMods
               \o <<"ViewTransition", "Window", "Prevent", "Outside", "Stop">>),
       Ext("DatastarOnIntersect", "on-intersect",
           "Runs an expression when the element intersects with the viewport.",
           "",
           FALSE, AttributeTypeString,
           <<"Once", "Half", "Full">> \o TimingMods \o <<"ViewTransition">>),
       Ext("DatastarOnInterval", "on-interval",
           "Runs an expression at a regular interval. The interval duration defaults to one second and can be modified using the '__duration' modifier.",
           "https://data-star.dev/reference/attributes#data-on-interval",
           FALSE, AttributeTypeString,
           <<"DurationMs", "DurationMsLeading", "DurationSec", "DurationSecLeading",
             "ViewTransition">>),
       Ext("DatastarOnSignalPatch", "on-signal-patch",
           "Runs an expression whenever any signals are patched. This is useful for tracking changes, updating computed values, or triggering side effects when data updates.",
           "https://data-star.dev/reference/attributes#data-on-signal-patch",
           FALSE, AttributeTypeString, TimingMods),
       Ext("DatastarOnSignalPatchFilter", "on-signal-patch-filter",
           "Filters which signals to watch when using the data-on-signal-patch attribute.\n\nThe data-on-signal-patch-filter attribute accepts an object with include and/or exclude properties that are regular expressions.",
           "https://data-star.dev/reference/attributes#data-on-signal-patch-filter",
           FALSE, AttributeTypeString, << >>),
       Ext("DatastarPreserveAttr", "preserve-attr",
           "Preserves the value of an attribute when morphing DOM elements.",
           "https://data-star.dev/reference/attributes#data-preserve-attr",
           FALSE, AttributeTypeString, << >>),
       Ext("DatastarRef", "ref",
           "Creates a new signal that is a reference to the element on which the data attribute is placed.",
           "https://data-star.dev/reference/attributes#data-ref",
           FALSE, AttributeTypeString, <<"Case">>),
       Ext("DatastarShow", "show",
           "Shows or hides an element based on whether an expression evaluates to 'true' or 'false'. For anything with custom requirements, use 'data-class' instead.",
           "https://data-star.dev/reference/attributes#data-show",
           FALSE, AttributeTypeString, << >>),
       Ext("DatastarSignals", "signals",
           "Patches (adds, updates or removes) one or more signals into the existing signals. Values defined later in the DOM tree override those defined earlier.",
           "https://data-star.dev/reference/attributes#data-signals",
           TRUE, AttributeTypeString, <<"Case", "IfMissing">>),
       Ext("DatastarStyle", "datastar-style",
           "Sets the value of inline CSS styles on an element based on an expression, and keeps them in sync.",
           "https://data-star.dev/reference/attributes#data-style",
           TRUE, AttributeTypeString, <<"Case">>),
       Ext("DatastarText", "text",
           "Binds the text content of an element to an expression.",
           "https://data-star.dev/reference/attributes#data-text",
           FALSE, AttributeTypeString, << >>) >>

NumEntries == Len(DatastarExtensionsLiteral)
Entries == 1..NumEntries

HasDoc(i) == DatastarExtensionsLiteral[i].Url # ""
DocEntries == {i \in Entries : HasDoc(i)}


(***************************************************************************)
(* doc(description, u_)                                                    *)
(***************************************************************************)
StatusOK == 200
DescCut == 30

\* The arguments of the doc call of element i as the catalog literal writes them.
DocLiteral(i) ==
    [description |-> DatastarExtensionsLiteral[i].Description,
     url |-> DatastarExtensionsLiteral[i].Url]

\* URLs a doc call is tried with besides the catalog's own.
UrlInputs ==
    { "HTTPS://data-star.dev/reference/attributes#data-attr",
      "https://data-star.dev/reference/attributes#",
      "https://data-star.dev/reference#a#b",
      "https://data-star.dev:8080/reference?",
      ":data-star.dev",
      "https://data-star.dev/\nreference",
      "https://data-star.dev:x/reference",
      "1a:b",
      "",
      "mailto:docs" }

\* Descriptions a doc call is tried with besides the catalog's own: shorter than,
\* and exactly as long as, the prefix doc() cuts for its panic message.
DescriptionInputs == { "Short text.", "Exactly thirty bytes are here." }

NoEdit == [entry |-> 0, description |-> "", url |-> ""]

EditInputs ==
    {NoEdit} \cup
    { e \in [entry : DocEntries, description : DescriptionInputs \cup {""},
             url : UrlInputs \cup {"-"}] :
        ~(e.description = "" /\ e.url = "-") }

\* The arguments element i's doc call is run with: "" and "-" stand for "as in the literal".
DocArgs(i) ==
    IF edit.entry # i THEN DocLiteral(i)
    ELSE [description |-> IF edit.description = "" THEN DocLiteral(i).description
                          ELSE edit.description,
          url |-> IF edit.url = "-" THEN DocLiteral(i).url ELSE edit.url]

\* What http.Get(u.String()) can return: resp is nil exactly when hasResp is FALSE.
\* A non-nil err with a non-nil resp is the client giving up on redirects.
Response(err, hasResp, status) == [err |-> err, hasResp |-> hasResp, status |-> status]

TransportError == Response(TRUE, FALSE, 0)

\* Without an http(s) scheme and a host the client fails before any request is sent.
CanRequest(u) == u.Scheme \in {"http", "https"} /\ u.Host # ""

Responses(u) ==
    IF CanRequest(u)
    THEN { Response(FALSE, TRUE, StatusOK), Response(FALSE, TRUE, 404),
           Response(FALSE, TRUE, 500), Response(TRUE, TRUE, 302), TransportError }
    ELSE { TransportError }

\* Mutant of docParseFailed: the parse error is ignored.
docParseErrIgnored(p) == FALSE

\* line 285: the URL did not parse.
docParseFailed(p) == p.err # ""

\* lines 286-287: the panic of the malformed-URL branch; description[0:30] itself
\* panics when the description is shorter than 30 bytes.
docParsePanic(description) ==
    IF Len(description) < DescCut
    THEN [kind |-> "runtime",
          msg |-> "slice bounds out of range [:" \o ToString(DescCut) \o "] with length "
                    \o ToString(Len(description))]
    ELSE [kind |-> "string", msg |-> Slice(description, 1, DescCut) \o "..." \o ": invalid URL"]

\* Mutant of docFetchFailed: the status code is not looked at.
docFetchFailedErrOnly(resp) == resp.err

\* line 291: the fetch counts as failed.
docFetchFailed(resp) == resp.err \/ resp.status # StatusOK

\* lines 292-293: the panic of the failed-fetch branch; resp.StatusCode dereferences
\* a nil resp when the fetch failed without a response.
docFetchPanic(u, resp) ==
    IF ~resp.hasResp
    THEN [kind |-> "runtime", msg |-> "invalid memory address or nil pointer dereference"]
    ELSE [kind |-> "error",
          msg |-> "Failed to fetch url " \o urlString(u) \o " (statusCode="
                    \o ToString(resp.status) \o ")"]

\* Mutant of docReturn: the footer separated by a single newline.
docReturnOneNewline(description, u) == description \o "\nSee: " \o urlString(u)

\* line 296: the value doc returns.
docReturn(description, u) == description \o "\n\nSee: " \o urlString(u)

(***************************************************************************)
(* Package initialisation.                                                 *)
(***************************************************************************)
\* Mutant of InitOrder: the variables initialised in the order they are declared.
InitOrderAsDeclared == <<"DatastarExtensions", "datastarModifiers">>

\* Go initialises package-level variables in dependency order: DatastarExtensions
\* refers to datastarModifiers, so datastarModifiers is initialised first although
\* it is declared later in the file.
InitOrder == <<"datastarModifiers", "DatastarExtensions">>

NoPanic == [kind |-> "none", msg |-> ""]

\* The first step of evaluating element i of the catalog literal.
StepFor(i) == IF HasDoc(i) THEN "parse" ELSE "type"

\* Where initialisation continues when `order` is what is left to initialise.
StartOf(order) ==
    IF order = << >> THEN [pc |-> "done", i |-> 0]
    ELSE IF Head(order) = "datastarModifiers" THEN [pc |-> "registry", i |-> 0]
    ELSE [pc |-> StepFor(1), i |-> 1]

CurAt(i) == [i |-> i, url |-> URLZero, description |-> ""]

NoElement == [tag |-> "", attrs |-> << >>]

\* No builder call has been made on el.
NoCall ==
    [form |-> "none", cond |-> FALSE,
     attr |-> [entry |-> 0, subkey |-> "", expr |-> "", mods |-> << >>],
     before |-> NoElement]

InitWith(registries, edits) ==
    /\ lit \in registries
    /\ edit \in edits
    /\ heap = HeapLiteral
    /\ pc = StartOf(InitOrder).pc
    /\ todo = InitOrder
    /\ datastarModifiers = RegistryZero
    /\ building = << >>
    /\ DatastarExtensions = << >>
    /\ cur = CurAt(StartOf(InitOrder).i)
    /\ inflight = {}
    /\ events = << >>
    /\ nInit = [datastarModifiers |-> 0, DatastarExtensions |-> 0]
    /\ panicValue = NoPanic
    /\ el = NoElement
    /\ out = ""
    /\ rendered = FALSE
    /\ test = 0
    /\ last = NoCall
    /\ prevOut = ""
    /\ pool = ""

\* A registry literal with unset fields never gets as far as a doc call, so the doc
\* arguments are varied only under the complete registry literal.
Init ==
    \/ InitWith(RegistryInputs \cup RegistryAliased, {NoEdit})
    \/ InitWith({RegistryLiteral}, EditInputs)

elementVars == <<el, out, rendered, test, last, prevOut, pool>>
inputVars == <<lit, edit>>

\* var datastarModifiers = attributeCustomModifiers{...}.validate()
InitRegistry ==
    /\ pc = "registry"
    /\ LET r == validate(lit)
       IN  IF r.panicked
           THEN /\ pc' = "panicked"
                /\ panicValue' = r.panic
                /\ UNCHANGED <<datastarModifiers, todo, nInit, cur>>
           ELSE /\ datastarModifiers' = r.value
                /\ todo' = Tail(todo)
                /\ nInit' = [nInit EXCEPT !.datastarModifiers = @ + 1]
                /\ pc' = StartOf(Tail(todo)).pc
                /\ cur' = CurAt(StartOf(Tail(todo)).i)
                /\ UNCHANGED panicValue
    /\ UNCHANGED <<heap, building, DatastarExtensions, inflight, events>>
    /\ UNCHANGED <<inputVars, elementVars>>

\* doc, lines 284-288: parse the URL; panic if it is malformed.
DocParse ==
    /\ pc = "parse"
    /\ LET a == DocArgs(cur.i)
           p == urlParse(a.url)
       IN  /\ events' = Append(events, [op |-> "parse", entry |-> cur.i, ok |-> p.err = ""])
           /\ IF docParseFailed(p)
              THEN /\ pc' = "panicked"
                   /\ panicValue' = docParsePanic(a.description)
                   /\ UNCHANGED cur
              ELSE /\ pc' = "fetch"
                   /\ cur' = [cur EXCEPT !.url = p.url]
                   /\ UNCHANGED panicValue
    /\ UNCHANGED <<heap, todo, datastarModifiers, building, DatastarExtensions, inflight, nInit>>
    /\ UNCHANGED <<inputVars, elementVars>>

\* doc, line 290: http.Get is called and blocks.
DocFetch ==
    /\ pc = "fetch"
    /\ inflight' = inflight \cup {cur.i}
    /\ events' = Append(events, [op |-> "fetch", entry |-> cur.i, ok |-> TRUE])
    /\ pc' = "await"
    /\ UNCHANGED <<heap, todo, datastarModifiers, building, DatastarExtensions, cur, nInit,
                   panicValue>>
    /\ UNCHANGED <<inputVars, elementVars>>

\* doc, lines 290-296: http.Get returns; panic on a failed fetch, else return the
\* annotated description.
DocResponse ==
    /\ pc = "await"
    /\ \E resp \in Responses(cur.url) :
        /\ inflight' = inflight \ {cur.i}
        /\ events' = Append(events, [op |-> "response", entry |-> cur.i,
                                     ok |-> ~resp.err /\ resp.status = StatusOK])
        /\ IF docFetchFailed(resp)
           THEN /\ pc' = "panicked"
                /\ panicValue' = docFetchPanic(cur.url, resp)
                /\ UNCHANGED cur
           ELSE /\ pc' = "type"
                /\ cur' = [cur EXCEPT !.description = docReturn(DocArgs(cur.i).description, cur.url)]
                /\ UNCHANGED panicValue
    /\ UNCHANGED <<heap, todo, datastarModifiers, building, DatastarExtensions, nInit>>
    /\ UNCHANGED <<inputVars, elementVars>>

\* Mutant of Attribute: every element given the base type string.
AttributeBaseString(i, description) ==
    LET e == DatastarExtensionsLiteral[i]
    IN  [Name |-> e.Name, Key |-> e.Key, Description |-> description,
         Type |-> AttributeTypeCustom(e.Custom, AttributeTypeString,
                    [k \in 1..Len(e.Mods) |-> datastarModifiers[e.Mods[k]]])]

\* Mutant of Attribute: Key filled from the element's Name.
AttributeKeyFromName(i, description) ==
    LET e == DatastarExtensionsLiteral[i]
    IN  [Name |-> e.Name, Key |-> e.Name, Description |-> description,
         Type |-> AttributeTypeCustom(e.Custom, e.Base,
                    [k \in 1..Len(e.Mods) |-> datastarModifiers[e.Mods[k]]])]

\* The element of the catalog literal at index i, given its Description: the
\* modifier pointers are read from the package variable datastarModifiers.
Attribute(i, description) ==
    LET e == DatastarExtensionsLiteral[i]
    IN  [Name |-> e.Name, Key |-> e.Key, Description |-> description,
         Type |-> AttributeTypeCustom(e.Custom, e.Base,
                    [k \in 1..Len(e.Mods) |-> datastarModifiers[e.Mods[k]]])]

\* Type: AttributeTypeCustom(...): the element is complete; go on to the next one.
BuildEntry ==
    /\ pc = "type"
    /\ LET i == cur.i
           d == IF HasDoc(i) THEN cur.description ELSE DatastarExtensionsLiteral[i].Description
       IN  /\ building' = Append(building, Attribute(i, d))
           /\ IF i = NumEntries
              THEN pc' = "assign" /\ UNCHANGED cur
              ELSE pc' = StepFor(i + 1) /\ cur' = CurAt(i + 1)
    /\ UNCHANGED <<heap, todo, datastarModifiers, DatastarExtensions, inflight, events, nInit,
                   panicValue>>
    /\ UNCHANGED <<inputVars, elementVars>>

\* var DatastarExtensions = []*pb.Attribute{...}: the finished slice is assigned.
AssignCatalog ==
    /\ pc = "assign"
    /\ DatastarExtensions' = building
    /\ todo' = Tail(todo)
    /\ nInit' = [nInit EXCEPT !.DatastarExtensions = @ + 1]
    /\ pc' = StartOf(Tail(todo)).pc
    /\ cur' = CurAt(StartOf(Tail(todo)).i)
    /\ UNCHANGED <<heap, datastarModifiers, building, inflight, events, panicValue>>
    /\ UNCHANGED <<inputVars, elementVars>>

Next ==
    \/ InitRegistry
    \/ DocParse
    \/ DocFetch
    \/ DocResponse
    \/ BuildEntry
    \/ AssignCatalog

Spec == Init /\ [][Next]_vars


(***************************************************************************)
(* The builder methods generated from the catalog (package elements) and   *)
(* their rendering, by the wire format                                     *)
(*   data-<key>[:<subkey>][__<prefix><value><suffix>]="<expression>"       *)
(***************************************************************************)
\* Values the builder calls are made with.  Durations are in milliseconds.
SubKeyInputs == {"", "title"}
ExprInputs == {"$foo"}
CaseInputs == {"kebab"}
DurationInputs == {500, 2000}

\* One modifier argument of a builder call: the modifier and its value, a string
\* for a string modifier, a duration for a duration modifier.
ModArg(ptr, str, dur) == [ptr |-> ptr, str |-> str, dur |-> dur]

\* The arguments modifier ptr can be called with.
ModArgsOf(ptr) ==
    CASE heap[ptr].Type.Base = AttributeTypeBool -> {ModArg(ptr, "", 0)}
      [] heap[ptr].Type.Base = AttributeTypeString -> {ModArg(ptr, c, 0) : c \in CaseInputs}
      [] heap[ptr].Type.Base = AttributeTypeDurationMs ->
            {ModArg(ptr, "", d) : d \in {x \in DurationInputs : x < 1000}}
      [] heap[ptr].Type.Base = AttributeTypeDurationSec ->
            {ModArg(ptr, "", d) : d \in {x \in DurationInputs : x >= 1000}}

\* The modifier arguments the builder method of attr accepts: its permitted modifiers.
PermittedModArgs(attr) ==
    UNION {ModArgsOf(attr.Type.Modifiers[k]) : k \in 1..Len(attr.Type.Modifiers)}

RECURSIVE SeqsUpTo(_, _)
SeqsUpTo(S, n) ==
    IF n = 0 THEN {<< >>}
    ELSE LET T == SeqsUpTo(S, n - 1) IN T \cup {Append(t, x) : t \in T, x \in S}

\* The value of a modifier as text: a duration as the whole number of its unit.
ModValue(m) ==
    CASE heap[m.ptr].Type.Base = AttributeTypeBool -> ""
      [] heap[m.ptr].Type.Base = AttributeTypeString -> m.str
      [] heap[m.ptr].Type.Base = AttributeTypeDurationMs -> ToString(m.dur)
      [] heap[m.ptr].Type.Base = AttributeTypeDurationSec -> ToString(m.dur \div 1000)

\* __<prefix><value><suffix>
ModSegment(m) == "__" \o heap[m.ptr].Prefix \o ModValue(m) \o heap[m.ptr].Suffix

RECURSIVE ModSegments(_)
ModSegments(mods) ==
    IF mods = << >> THEN "" ELSE ModSegment(Head(mods)) \o ModSegments(Tail(mods))

\* The name of the HTML attribute: data-<key>[:<subkey>][__<modifier>...]
AttrName(a) ==
    "data-" \o DatastarExtensions[a.entry].Key
        \o (IF a.subkey # "" THEN ":" \o a.subkey ELSE "")
        \o ModSegments(a.mods)

\* A boolean attribute renders bare; any other as name="expression".
RenderAttr(a) ==
    IF DatastarExtensions[a.entry].Type.Base = AttributeTypeBool
    THEN " " \o AttrName(a)
    ELSE " " \o AttrName(a) \o "=\"" \o a.expr \o "\""

RECURSIVE RenderAttrs(_)
RenderAttrs(attrs) ==
    IF attrs = << >> THEN "" ELSE RenderAttr(Head(attrs)) \o RenderAttrs(Tail(attrs))

\* ElementRenderer.Render.
RenderElement(e) == "<" \o e.tag \o RenderAttrs(e.attrs) \o "></" \o e.tag \o ">"

\* The attribute a builder call sets.
Attr(entry, subkey, expr, mods) ==
    [entry |-> entry, subkey |-> subkey, expr |-> expr, mods |-> mods]

\* DIV(): a fresh element without attributes.
DIV == [tag |-> "div", attrs |-> << >>]

\* Two settings of the same HTML attribute: the same name data-<key>[:<subkey>][__...].
SameAttr(a, b) == a.entry = b.entry /\ a.subkey = b.subkey /\ a.mods = b.mods

\* The element with attribute a set: a setting of the same name is replaced in
\* place, any other is added.
SetAttr(e, a) ==
    IF \E k \in 1..Len(e.attrs) : SameAttr(e.attrs[k], a)
    THEN [e EXCEPT !.attrs = [k \in 1..Len(e.attrs) |->
                                 IF SameAttr(e.attrs[k], a) THEN a ELSE e.attrs[k]]]
    ELSE [e EXCEPT !.attrs = Append(e.attrs, a)]

\* The element without the attribute of the entry for the sub-key.
RemoveAttr(e, entry, subkey) ==
    [e EXCEPT !.attrs = SelectSeq(e.attrs, LAMBDA x : ~(x.entry = entry /\ x.subkey = subkey))]

\* A builder call: its form, the condition of the If<ATTR> and <ATTR>Set forms, and
\* the attribute named by its arguments.
Call(form, cond, attr) == [form |-> form, cond |-> cond, attr |-> attr]

\* <ATTR>(args...), If<ATTR>(cond, args...), <ATTR>Remove([subkey]), <ATTR>Set(b).
Apply(e, c) ==
    CASE c.form = "set" -> SetAttr(e, c.attr)
      [] c.form = "if" -> IF c.cond THEN SetAttr(e, c.attr) ELSE e
      [] c.form = "remove" -> RemoveAttr(e, c.attr.entry, c.attr.subkey)
      [] c.form = "setbool" ->
            IF c.cond THEN SetAttr(e, c.attr) ELSE RemoveAttr(e, c.attr.entry, c.attr.subkey)

RECURSIVE ApplyAll(_, _)
ApplyAll(e, calls) ==
    IF calls = << >> THEN e ELSE ApplyAll(Apply(e, Head(calls)), Tail(calls))

\* The number of modifiers the element carries, over all its attributes.
RECURSIVE ModCountOf(_)
ModCountOf(attrs) ==
    IF attrs = << >> THEN 0 ELSE Len(Head(attrs).mods) + ModCountOf(Tail(attrs))

ModCount(e) == ModCountOf(e.attrs)

\* The element the next builder call is made on: a fresh DIV() if there is none.
Receiver == IF el = NoElement THEN DIV ELSE el

\* The element is within the bounds of the model: it carries up to MaxMods
\* modifiers, and an attribute after the first counts as MaxMods modifiers.
Fits(e) == ModCount(e) + MaxMods * (Len(e.attrs) - 1) <= MaxMods

\* The arguments the builder method of catalog entry i is called with on e: on a
\* fresh element all that fit; on another those without modifiers and those that
\* set an attribute of e again (no other fits).
CallArgs(e, i) ==
    LET attr == DatastarExtensions[i]
        subkeys == IF attr.Type.Custom THEN SubKeyInputs ELSE {""}
        exprs == IF attr.Type.Base = AttributeTypeBool THEN {""} ELSE ExprInputs
        mods == IF e.attrs = << >>
                THEN SeqsUpTo(PermittedModArgs(attr), MaxMods)
                ELSE {<< >>} \cup {e.attrs[k].mods : k \in {j \in 1..Len(e.attrs) :
                                                              e.attrs[j].entry = i}}
    IN  {a \in {Attr(i, subkey, expr, m) : subkey \in subkeys, expr \in exprs, m \in mods} :
            Fits(SetAttr(e, a))}

\* A builder call is made on a fresh element or on one that carries an attribute,
\* with up to MaxChainMods modifiers (an element the calls have emptied again is
\* rendered as it is).
CanBuild ==
    /\ pc = "done"
    /\ ~rendered
    /\ Receiver.attrs = << >> => last = NoCall
    /\ ModCount(Receiver) <= MaxChainMods

\* The builder call c is made on the element.
Build(c) ==
    /\ CanBuild
    /\ Fits(Apply(Receiver, c))
    /\ el' = Apply(Receiver, c)
    /\ last' = [form |-> c.form, cond |-> c.cond, attr |-> c.attr, before |-> Receiver]
    /\ UNCHANGED <<out, rendered, test, prevOut, pool>>
    /\ UNCHANGED <<heap, pc, todo, datastarModifiers, building, DatastarExtensions, cur,
                   inflight, events, nInit, panicValue, inputVars>>

\* DIV(): another element is started once the one before is rendered.
NewElement ==
    /\ pc = "done"
    /\ rendered
    /\ el' = DIV
    /\ out' = ""
    /\ rendered' = FALSE
    /\ test' = 0
    /\ last' = NoCall
    /\ prevOut' = ""
    /\ UNCHANGED pool
    /\ UNCHANGED <<heap, pc, todo, datastarModifiers, building, DatastarExtensions, cur,
                   inflight, events, nInit, panicValue, inputVars>>

\* e.DATASTAR_<ATTR>([subkey,] [expression,] modifiers...)
BuilderCall ==
    /\ CanBuild
    /\ \E i \in 1..Len(DatastarExtensions) :
          \E a \in CallArgs(Receiver, i) : Build(Call("set", TRUE, a))

\* e.IfDATASTAR_<ATTR>(cond, [subkey,] [expression,] modifiers...), with up to
\* MaxChainMods modifiers.
BuilderIf ==
    /\ CanBuild
    /\ \E i \in 1..Len(DatastarExtensions), cond \in BOOLEAN :
          \E a \in {x \in CallArgs(Receiver, i) : Len(x.mods) <= MaxChainMods} :
              Build(Call("if", cond, a))

\* The catalog entries the element carries an attribute of; DatastarAttr on a
\* fresh element.
Carried(e) == IF e.attrs = << >> THEN {1} ELSE {e.attrs[k].entry : k \in 1..Len(e.attrs)}

\* e.DATASTAR_<ATTR>Remove([subkey]), of an attribute that takes a value and that
\* the element carries, for the same or another sub-key.
BuilderRemove ==
    /\ CanBuild
    /\ \E i \in Carried(Receiver) :
        /\ DatastarExtensions[i].Type.Base # AttributeTypeBool
        /\ \E subkey \in (IF DatastarExtensions[i].Type.Custom THEN SubKeyInputs ELSE {""}) :
              Build(Call("remove", TRUE, Attr(i, subkey, "", << >>)))

\* e.DATASTAR_<ATTR>Set(b), of a boolean attribute.
BuilderSet ==
    /\ CanBuild
    /\ \E i \in 1..Len(DatastarExtensions), b \in BOOLEAN :
          /\ DatastarExtensions[i].Type.Base = AttributeTypeBool
          /\ Build(Call("setbool", b, Attr(i, "", "", << >>)))

\* bytebufferpool.Get: the buffer the pool hands out, a pooled one or a new, empty one.
GetBuffer == {pool}

\* Mutant of PutBuffer: the buffer goes back as it is.
PutBufferAsIs(b) == b

\* bytebufferpool.Put: the buffer is reset and kept for reuse; a reset buffer is
\* empty as a new one is.
PutBuffer(b) == ""

\* buf := bytebufferpool.Get(); e.Render(buf); buf.String(); bytebufferpool.Put(buf):
\* the element is written after whatever the buffer holds.
Render ==
    /\ pc = "done"
    /\ el # NoElement
    /\ \E b \in GetBuffer :
          /\ out' = b \o RenderElement(el)
          /\ pool' = PutBuffer(b \o RenderElement(el))
    /\ prevOut' = IF rendered THEN out ELSE ""
    /\ rendered' = TRUE
    /\ UNCHANGED <<el, test, last>>
    /\ UNCHANGED <<heap, pc, todo, datastarModifiers, building, DatastarExtensions, cur,
                   inflight, events, nInit, panicValue, inputVars>>

(***************************************************************************)
(* src/tests/datastar_test.go: the cases that make one builder call.       *)
(***************************************************************************)
\* A case: its line, the element, the attribute (by catalog Name), the call's
\* sub-key, expression and modifiers (by Modifier Name, with value), and Expected.
TC(line, tag, name, subkey, expr, mods, expected) ==
    [line |-> line, tag |-> tag, name |-> name, subkey |-> subkey, expr |-> expr,
     mods |-> mods, expected |-> expected]

BoolMod(name) == [name |-> name, str |-> "", dur |-> 0]
StrMod(name, str) == [name |-> name, str |-> str, dur |-> 0]
DurMod(name, ms) == [name |-> name, str |-> "", dur |-> ms]

TestCases ==
    << TC(20, "div", "DatastarAttr", "title", "$foo", << >>,
          "<div data-attr:title=\"$foo\"></div>"),
       TC(28, "div", "DatastarAttr", "", "{title: $foo, disabled: $bar}", << >>,
          "<div data-attr=\"{title: $foo, disabled: $bar}\"></div>"),
       TC(41, "div", "DatastarBind", "title", "foo", << >>,
          "<div data-bind:title=\"foo\"></div>"),
       TC(54, "div", "DatastarClass", "hidden", "$foo", << >>,
          "<div data-class:hidden=\"$foo\"></div>"),
       TC(58, "div", "DatastarClass", "hidden", "$foo", <<StrMod("Case", "camel")>>,
          "<div data-class:hidden__case.camel=\"$foo\"></div>"),
       TC(67, "div", "DatastarComputed", "foo", "$bar + $baz", << >>,
          "<div data-computed:foo=\"$bar + $baz\"></div>"),
       TC(71, "div", "DatastarComputed", "foo", "$bar + $baz", <<StrMod("Case", "kebab")>>,
          "<div data-computed:foo__case.kebab=\"$bar + $baz\"></div>"),
       TC(80, "div", "DatastarEffect", "", "$foo = $bar + $baz", << >>,
          "<div data-effect=\"$foo = $bar + $baz\"></div>"),
       TC(93, "div", "DatastarIgnore", "", "", << >>,
          "<div data-ignore></div>"),
       TC(97, "div", "DatastarIgnore", "", "", <<BoolMod("Self")>>,
          "<div data-ignore__self></div>"),
       TC(106, "div", "DatastarIgnoreMorph", "", "", << >>,
          "<div data-ignore-morph></div>"),
       TC(119, "div", "DatastarIndicator", "", "fetching", << >>,
          "<div data-indicator=\"fetching\"></div>"),
       TC(123, "div", "DatastarIndicator", "", "foo", <<StrMod("Case", "pascal")>>,
          "<div data-indicator__case.pascal=\"foo\"></div>"),
       TC(132, "div", "DatastarInit", "", "$count = 1", << >>,
          "<div data-init=\"$count = 1\"></div>"),
       TC(136, "div", "DatastarInit", "", "$count = 1", <<DurMod("DelayMs", 200)>>,
          "<div data-init__delay.200ms=\"$count = 1\"></div>"),
       TC(140, "div", "DatastarInit", "", "$count = 1", <<DurMod("DelaySec", 5000)>>,
          "<div data-init__delay.5s=\"$count = 1\"></div>"),
       TC(144, "div", "DatastarInit", "", "$count = 1", <<BoolMod("ViewTransition")>>,
          "<div data-init__viewtransition=\"$count = 1\"></div>"),
       TC(153, "pre", "DatastarJSONSignals", "", "{include: /^app/, exclude: /password/}", << >>,
          "<pre data-json-signals=\"{include: /^app/, exclude: /password/}\"></pre>"),
       TC(157, "pre", "DatastarJSONSignals", "", "{include: /^app/, exclude: /password/}",
          <<BoolMod("Terse")>>,
          "<pre data-json-signals__terse=\"{include: /^app/, exclude: /password/}\"></pre>"),
       TC(166, "button", "DatastarOn", "click", "$foo = ''", << >>,
          "<button data-on:click=\"$foo = ''\"></button>"),
       TC(170, "button", "DatastarOn", "click", "$foo = ''", <<BoolMod("Window")>>,
          "<button data-on:click__window=\"$foo = ''\"></button>"),
       TC(174, "div", "DatastarOn", "my-event", "$foo = 'bar'", <<DurMod("DebounceSec", 2000)>>,
          "<div data-on:my-event__debounce.2s=\"$foo = 'bar'\"></div>"),
       TC(178, "button", "DatastarOn", "click", "$foo = ''", <<DurMod("DebounceMsLeading", 500)>>,
          "<button data-on:click__debounce.500ms.leading=\"$foo = ''\"></button>"),
       TC(182, "button", "DatastarOn", "click", "$foo = ''",
          <<BoolMod("Window"), DurMod("DebounceSecNoTrailing", 1000)>>,
          "<button data-on:click__window__debounce.1s.notrailing=\"$foo = ''\"></button>"),
       TC(186, "span", "DatastarOn", "click", "$foo = 'bar'", <<DurMod("ThrottleMs", 200)>>,
          "<span data-on:click__throttle.200ms=\"$foo = 'bar'\"></span>"),
       TC(190, "button", "DatastarOn", "click", "$foo = ''",
          <<DurMod("ThrottleMsTrailing", 500), BoolMod("Window")>>,
          "<button data-on:click__throttle.500ms.trailing__window=\"$foo = ''\"></button>"),
       TC(194, "div", "DatastarOn", "my-event", "$foo = 'evt.detail'",
          <<DurMod("ThrottleSecNoLeading", 3000), StrMod("Case", "snake")>>,
          "<div data-on:my-event__throttle.3s.noleading__case.snake=\"$foo = 'evt.detail'\"></div>"),
       TC(203, "div", "DatastarOnIntersect", "", "$intersected = true", << >>,
          "<div data-on-intersect=\"$intersected = true\"></div>"),
       TC(207, "div", "DatastarOnIntersect", "", "$fullyIntersected = true",
          <<BoolMod("Once"), BoolMod("Full")>>,
          "<div data-on-intersect__once__full=\"$fullyIntersected = true\"></div>"),
       TC(211, "div", "DatastarOnIntersect", "", "$halfIntersected = true",
          <<BoolMod("Half"), DurMod("DebounceSec", 2000)>>,
          "<div data-on-intersect__half__debounce.2s=\"$halfIntersected = true\"></div>"),
       TC(215, "button", "DatastarOnIntersect", "", "$intersected = true",
          <<DurMod("DebounceMsLeading", 500)>>,
          "<button data-on-intersect__debounce.500ms.leading=\"$intersected = true\"></button>"),
       TC(219, "button", "DatastarOnIntersect", "", "$intersected = true",
          <<BoolMod("ViewTransition"), DurMod("DebounceSecNoTrailing", 1000)>>,
          "<button data-on-intersect__viewtransition__debounce.1s.notrailing=\"$intersected = true\"></button>"),
       TC(223, "span", "DatastarOnIntersect", "", "$intersected = true",
          <<DurMod("ThrottleMs", 200)>>,
          "<span data-on-intersect__throttle.200ms=\"$intersected = true\"></span>"),
       TC(227, "button", "DatastarOnIntersect", "", "$intersected = true",
          <<DurMod("ThrottleMsTrailing", 500), BoolMod("ViewTransition")>>,
          "<button data-on-intersect__throttle.500ms.trailing__viewtransition=\"$intersected = true\"></button>"),
       TC(231, "div", "DatastarOnIntersect", "", "$intersected = true",
          <<DurMod("ThrottleSecNoLeading", 3000)>>,
          "<div data-on-intersect__throttle.3s.noleading=\"$intersected = true\"></div>"),
       TC(240, "div", "DatastarOnInterval", "", "$count++", <<DurMod("DurationMs", 500)>>,
          "<div data-on-interval__duration.500ms=\"$count++\"></div>"),
       TC(244, "div", "DatastarOnInterval", "", "$count++", <<DurMod("DurationSecLeading", 2000)>>,
          "<div data-on-interval__duration.2s.leading=\"$count++\"></div>"),
       TC(248, "div", "DatastarOnInterval", "", "$count++",
          <<DurMod("DurationSec", 2000), BoolMod("ViewTransition")>>,
          "<div data-on-interval__duration.2s__viewtransition=\"$count++\"></div>"),
       TC(257, "div", "DatastarOnSignalPatch", "", "console.log('A signal changed!')", << >>,
          "<div data-on-signal-patch=\"console.log('A signal changed!')\"></div>"),
       TC(261, "div", "DatastarOnSignalPatch", "", "console.log('A signal changed!')",
          <<DurMod("DelayMs", 500)>>,
          "<div data-on-signal-patch__delay.500ms=\"console.log('A signal changed!')\"></div>"),
       TC(265, "div", "DatastarOnSignalPatch", "", "console.log('A signal changed!')",
          <<DurMod("DebounceMsLeading", 500)>>,
          "<div data-on-signal-patch__debounce.500ms.leading=\"console.log('A signal changed!')\"></div>"),
       TC(274, "div", "DatastarOnSignalPatchFilter", "", "{include: /^counter$/}", << >>,
          "<div data-on-signal-patch-filter=\"{include: /^counter$/}\"></div>"),
       TC(292, "div", "DatastarRef", "", "foo", << >>,
          "<div data-ref=\"foo\"></div>"),
       TC(296, "div", "DatastarRef", "", "fooBar", <<StrMod("Case", "camel")>>,
          "<div data-ref__case.camel=\"fooBar\"></div>"),
       TC(305, "div", "DatastarShow", "", "$foo", << >>,
          "<div data-show=\"$foo\"></div>"),
       TC(314, "div", "DatastarSignals", "foo", "1", << >>,
          "<div data-signals:foo=\"1\"></div>"),
       TC(318, "div", "DatastarSignals", "", "{foo: {bar: 1, baz: 2}}", << >>,
          "<div data-signals=\"{foo: {bar: 1, baz: 2}}\"></div>"),
       TC(322, "div", "DatastarSignals", "", "{foo: null}", <<BoolMod("IfMissing")>>,
          "<div data-signals__ifmissing=\"{foo: null}\"></div>"),
       TC(326, "div", "DatastarSignals", "my-signal", "1", <<StrMod("Case", "kebab")>>,
          "<div data-signals:my-signal__case.kebab=\"1\"></div>"),
       TC(335, "div", "DatastarStyle", "background-color", "$usingRed ? 'red' : 'blue'", << >>,
          "<div data-style:background-color=\"$usingRed ? 'red' : 'blue'\"></div>"),
       TC(348, "div", "DatastarText", "", "$foo", << >>,
          "<div data-text=\"$foo\"></div>") >>

TestLines == {TestCases[k].line : k \in 1..Len(TestCases)}

TestAt(line) == TestCases[CHOOSE k \in 1..Len(TestCases) : TestCases[k].line = line]

\* The catalog index of the attribute with the given Name.
EntryNamed(name) ==
    CHOOSE i \in 1..Len(DatastarExtensions) : DatastarExtensions[i].Name = name

\* The modifier arguments of a test case, resolved to the permitted modifiers of
\* its attribute by Modifier Name.
TestMods(t) ==
    LET permitted == DatastarExtensions[EntryNamed(t.name)].Type.Modifiers
        ptrOf(n) == permitted[CHOOSE k \in 1..Len(permitted) : heap[permitted[k]].Name = n]
    IN  [k \in 1..Len(t.mods) |-> ModArg(ptrOf(t.mods[k].name), t.mods[k].str, t.mods[k].dur)]

\* The element a test case builds (result.Actual).
TestElement(t) ==
    [tag |-> t.tag, attrs |-> <<Attr(EntryNamed(t.name), t.subkey, t.expr, TestMods(t))>>]

\* The cases that chain builder calls or use another form than <ATTR>(args...):
\* line, element, the calls in order, Expected.  (The cases of lines 283 and 339
\* also set a plain HTML attribute, which is no part of this catalog.)
TCall(form, cond, name, subkey, expr) ==
    [form |-> form, cond |-> cond, name |-> name, subkey |-> subkey, expr |-> expr,
     mods |-> << >>]

ChainCases ==
    << [line |-> 24, tag |-> "div", expected |-> "<div></div>",
        calls |-> << TCall("set", TRUE, "DatastarAttr", "title", "$foo"),
                     TCall("remove", TRUE, "DatastarAttr", "title", "") >>],
       [line |-> 32, tag |-> "div", expected |-> "<div></div>",
        calls |-> << TCall("set", TRUE, "DatastarAttr", "", "{title: $foo, disabled: $bar}"),
                     TCall("remove", TRUE, "DatastarAttr", "", "") >>],
       [line |-> 45, tag |-> "div", expected |-> "<div></div>",
        calls |-> << TCall("if", FALSE, "DatastarBind", "title", "foo") >>],
       [line |-> 84, tag |-> "div",
        expected |-> "<div data-effect=\"$foo = $bar + $baz\"></div>",
        calls |-> << TCall("if", TRUE, "DatastarEffect", "", "$foo = $bar + $baz") >>],
       [line |-> 110, tag |-> "div", expected |-> "<div></div>",
        calls |-> << TCall("setbool", FALSE, "DatastarIgnoreMorph", "", "") >>] >>

ChainLines == {ChainCases[k].line : k \in 1..Len(ChainCases)}

\* Expected of the case at the line.
ExpectedAt(line) ==
    IF line \in ChainLines
    THEN ChainCases[CHOOSE k \in 1..Len(ChainCases) : ChainCases[k].line = line].expected
    ELSE TestAt(line).expected

\* Mutant of TestCall: the condition of the call is dropped.
TestCallCondTrue(c) ==
    Call(c.form, TRUE, Attr(EntryNamed(c.name), c.subkey, c.expr, TestMods(c)))

\* A call of a chained case as a builder call.
TestCall(c) ==
    Call(c.form, c.cond, Attr(EntryNamed(c.name), c.subkey, c.expr, TestMods(c)))

\* The calls of a chained case but the last, and the last.
ChainFront(t) == [k \in 1..(Len(t.calls) - 1) |-> TestCall(t.calls[k])]
ChainLast(t) == TestCall(t.calls[Len(t.calls)])

\* Mutant of ChainElement: only the first call of the chain is made, as <ATTR>(args...).
ChainElementFirstCallOnly(t) ==
    SetAttr([tag |-> t.tag, attrs |-> << >>], TestCall(t.calls[1]).attr)

\* The element a chained case builds (result.Actual).
ChainElement(t) ==
    Apply(ApplyAll([tag |-> t.tag, attrs |-> << >>], ChainFront(t)), ChainLast(t))

\* One round of the loop of run: the case's element, rendered into a buffer taken
\* from the pool; the assertion compares the buffer with Expected; the buffer goes
\* back to the pool.
RunCase(line, e, call, before) ==
    /\ pc = "done"
    /\ el \in {NoElement, DIV}
    /\ last = NoCall
    /\ ~rendered
    /\ el' = e
    /\ test' = line
    /\ last' = [form |-> call.form, cond |-> call.cond, attr |-> call.attr, before |-> before]
    /\ \E b \in GetBuffer :
          /\ out' = b \o RenderElement(e)
          /\ pool' = PutBuffer(b \o RenderElement(e))
    /\ rendered' = TRUE
    /\ prevOut' = ""
    /\ UNCHANGED <<heap, pc, todo, datastarModifiers, building, DatastarExtensions, cur,
                   inflight, events, nInit, panicValue, inputVars>>

\* run, lines 355-363, on a case of one builder call.
RunTest ==
    \E k \in 1..Len(TestCases) :
        RunCase(TestCases[k].line, TestElement(TestCases[k]),
                Call("set", TRUE, TestElement(TestCases[k]).attrs[1]),
                [tag |-> TestCases[k].tag, attrs |-> << >>])

\* run, lines 355-363, on a chained case.
RunChainTest ==
    \E k \in 1..Len(ChainCases) :
        RunCase(ChainCases[k].line, ChainElement(ChainCases[k]), ChainLast(ChainCases[k]),
                ApplyAll([tag |-> ChainCases[k].tag, attrs |-> << >>],
                         ChainFront(ChainCases[k])))

ElementNext ==
    \/ NewElement
    \/ BuilderCall
    \/ BuilderIf
    \/ BuilderRemove
    \/ BuilderSet
    \/ Render
    \/ RunTest
    \/ RunChainTest

\* The program as written: the registry and catalog literals of the source, the
\* network as it answers, then the builder methods in use.
InitUse == InitWith({RegistryLiteral}, {NoEdit})

SpecUse == InitUse /\ [][Next \/ ElementNext]_vars

(***************************************************************************)
(* Claims.                                                                 *)
(***************************************************************************)
Unset(a) == {f \in Fields : a[f] = Nil}

\* The unset field that comes first in the struct's declaration order.
FirstUnset(a) ==
    FieldOrder[CHOOSE i \in 1..Len(FieldOrder) :
                  /\ a[FieldOrder[i]] = Nil
                  /\ \A j \in 1..(i - 1) : a[FieldOrder[j]] # Nil]

\* C1: validate, called on a registry record with at least one unset field, does
\* not return: it panics with "Modifier <FieldName> is nil", naming the unset field
\* that comes first in declaration order, and datastarModifiers is never assigned.
C1_ValidateAbortsOnUnset ==
    (Unset(lit) # {} /\ pc # "registry") =>
        /\ pc = "panicked"
        /\ panicValue = [kind |-> "string", msg |-> "Modifier " \o FirstUnset(lit) \o " is nil"]
        /\ nInit.datastarModifiers = 0
        /\ datastarModifiers = RegistryZero

\* IfMissing is declared before Half, though it sorts after it.
C1_Witness ==
    /\ pc = "panicked"
    /\ Unset(lit) = {"Half", "IfMissing"}
    /\ panicValue.msg = "Modifier IfMissing is nil"

\* C2: validate, called on a registry record with all 32 fields set, returns a
\* record equal to its input field by field (the same pointers), and neither the
\* record nor any modifier descriptor is changed by the call.
C2_ValidateReturnsInput ==
    /\ [](Unset(lit) = {} /\ pc # "registry" =>
            /\ nInit.datastarModifiers = 1
            /\ \A f \in Fields : datastarModifiers[f] = lit[f]
            /\ heap = HeapLiteral)
    /\ [][pc = "registry" => lit' = lit /\ heap' = heap]_vars

C2_Witness ==
    /\ nInit.datastarModifiers = 1
    /\ lit \in RegistryAliased
    /\ datastarModifiers["Half"] = datastarModifiers["Full"]
    /\ datastarModifiers = lit

\* The catalog counts as valid: the registry passed validate and
\* DatastarExtensions has been constructed.
CatalogValid == nInit.datastarModifiers = 1 /\ nInit.DatastarExtensions = 1

TypeIsSet(t) ==
    t.Base \in {AttributeTypeBool, AttributeTypeString, AttributeTypeDurationMs,
                AttributeTypeDurationSec}

\* C3 as claimed: whenever the catalog is valid, every field of every Modifier in
\* the registry, Suffix included, is non-empty.
C3_EveryModifierFieldNonEmpty ==
    CatalogValid =>
        \A f \in Fields :
            /\ datastarModifiers[f] # Nil
            /\ heap[datastarModifiers[f]].Name # ""
            /\ heap[datastarModifiers[f]].Description # ""
            /\ TypeIsSet(heap[datastarModifiers[f]].Type)
            /\ heap[datastarModifiers[f]].Prefix # ""
            /\ heap[datastarModifiers[f]].Suffix # ""

\* C3 as amended: once the registry has passed validate, every field of the registry
\* refers to a Modifier whose Name, Description, Type and Prefix are non-empty (its
\* Suffix may be empty); a registry with an unset field never yields a catalog:
\* initialisation panics instead.
C3_RegistryFieldsSet ==
    /\ nInit.datastarModifiers > 0 =>
          \A f \in Fields :
              /\ datastarModifiers[f] # Nil
              /\ heap[datastarModifiers[f]].Name # ""
              /\ heap[datastarModifiers[f]].Description # ""
              /\ TypeIsSet(heap[datastarModifiers[f]].Type)
              /\ heap[datastarModifiers[f]].Prefix # ""
    /\ Unset(lit) # {} =>
          /\ ~CatalogValid
          /\ DatastarExtensions = << >>
          /\ pc \in {"registry", "panicked"}

C3_Witness ==
    /\ pc = "done"
    /\ CatalogValid
    /\ Len(DatastarExtensions) = NumEntries
    /\ heap[datastarModifiers["Capture"]].Suffix = ""
    /\ heap[datastarModifiers["Case"]].Suffix = ""

\* C4: every modifier in the list of permitted modifiers of every attribute
\* definition, in DatastarExtensions and in the literal while it is evaluated, is a
\* set (non-nil) reference to a Modifier with a non-empty Prefix and a set Type.
ModifierRefsOK(attrs) ==
    \A i \in 1..Len(attrs) :
        \A k \in 1..Len(attrs[i].Type.Modifiers) :
            /\ attrs[i].Type.Modifiers[k] # Nil
            /\ heap[attrs[i].Type.Modifiers[k]].Prefix # ""
            /\ TypeIsSet(heap[attrs[i].Type.Modifiers[k]].Type)

C4_ReferencedModifiersSet == ModifierRefsOK(DatastarExtensions) /\ ModifierRefsOK(building)

C4_Witness ==
    /\ pc = "done"
    /\ Len(DatastarExtensions) = NumEntries
    /\ Len(DatastarExtensions[11].Type.Modifiers) = 23
    /\ DatastarExtensions[11].Type.Modifiers[4] = datastarModifiers["Case"]

\* C5: when a documentation check fails (the URL does not parse, the fetch fails at
\* the transport level, or it returns a status other than 200), doc returns nothing
\* and initialisation is aborted: the element is not built, DatastarExtensions
\* stays unassigned although earlier elements were built, nothing happens after the
\* failure and the failed entry's fetch was issued at most once.
C5_FailedCheckAborts ==
    \A k \in 1..Len(events) :
        ~events[k].ok =>
            /\ pc = "panicked"
            /\ panicValue.kind # "none"
            /\ k = Len(events)
            /\ Len(building) < events[k].entry
            /\ DatastarExtensions = << >>
            /\ nInit.DatastarExtensions = 0
            /\ Cardinality({j \in 1..Len(events) :
                              events[j].op = "fetch" /\ events[j].entry = events[k].entry}) <= 1

C5_Witness ==
    /\ pc = "panicked"
    /\ events # << >>
    /\ events[Len(events)] = [op |-> "response", entry |-> 4, ok |-> FALSE]
    /\ Len(building) = 3
    /\ DatastarExtensions = << >>

\* doc has just returned for the element being evaluated.
DocReturned == pc = "type" /\ HasDoc(cur.i)

\* C6 as claimed: doc returns description + "\n\nSee: " + url, url being its argument.
C6_FooterIsInputUrl ==
    DocReturned =>
        cur.description = DocArgs(cur.i).description \o "\n\nSee: " \o DocArgs(cur.i).url

\* C6 as amended: doc returns the description, a blank line and "See: " plus the
\* URL as net/url writes the parsed URL back (u.String(): scheme in lower case, an
\* empty fragment dropped, '#' in the fragment escaped); for the catalog's own URLs
\* that is the argument itself.  The description is an unmodified prefix.
C6_FooterIsParsedUrl ==
    /\ DocReturned =>
          /\ cur.description = DocArgs(cur.i).description \o "\n\nSee: "
                                    \o urlString(urlParse(DocArgs(cur.i).url).url)
          /\ HasPrefix(cur.description, DocArgs(cur.i).description)
          /\ DocArgs(cur.i).url = DocLiteral(cur.i).url =>
                cur.description = DocArgs(cur.i).description \o "\n\nSee: "
                                        \o DocLiteral(cur.i).url
    /\ \A i \in 1..Len(building) :
          HasDoc(i) /\ edit.entry # i =>
              building[i].Description = DocLiteral(i).description \o "\n\nSee: "
                                            \o DocLiteral(i).url

C6_Witness ==
    /\ DocReturned
    /\ DocArgs(cur.i).url = "HTTPS://data-star.dev/reference/attributes#data-attr"
    /\ DocArgs(cur.i).description = "Short text."
    /\ cur.description = "Short text.\n\nSee: https://data-star.dev/reference/attributes#data-attr"

\* C7: the documentation checks run one at a time in catalog order: a fetch is
\* issued right after the URL of its own entry parsed, only when the checks of all
\* earlier doc-annotated entries have succeeded and nothing has failed, and never
\* while another fetch is in flight.
C7_ChecksSequential ==
    /\ Cardinality(inflight) <= 1
    /\ \A k \in 1..Len(events) :
          events[k].op = "fetch" =>
              /\ k > 1
              /\ events[k - 1] = [op |-> "parse", entry |-> events[k].entry, ok |-> TRUE]
              /\ \A j \in 1..(k - 1) : events[j].ok /\ events[j].entry <= events[k].entry
              /\ \A e \in DocEntries :
                    e < events[k].entry =>
                        \E j \in 1..(k - 1) :
                            events[j] = [op |-> "response", entry |-> e, ok |-> TRUE]
              /\ (k = Len(events) => inflight = {events[k].entry})

C7_Witness ==
    /\ pc = "await"
    /\ cur.i = NumEntries
    /\ inflight = {NumEntries}
    /\ Len(events) = 3 * Cardinality(DocEntries) - 1

\* C8: the registry and the catalog are each initialised once, the registry (with
\* validate) before any element of the catalog literal is evaluated, and once
\* initialisation is complete nothing changes the catalog, the registry or a
\* modifier descriptor again.
C8_BuiltOnceThenReadOnly ==
    /\ [](/\ nInit.datastarModifiers <= 1
          /\ nInit.DatastarExtensions <= 1
          /\ (pc = "done" => nInit.datastarModifiers = 1 /\ nInit.DatastarExtensions = 1)
          /\ (building # << >> \/ pc \in {"parse", "fetch", "await", "type"}
                => nInit.datastarModifiers = 1)
          /\ (pc = "done" => DatastarExtensions = building /\ Len(building) = NumEntries))
    /\ [][pc = "done" =>
            /\ pc' = "done"
            /\ DatastarExtensions' = DatastarExtensions
            /\ datastarModifiers' = datastarModifiers
            /\ heap' = heap]_vars

C8_Witness ==
    /\ pc = "done"
    /\ rendered
    /\ el # NoElement
    /\ nInit = [datastarModifiers |-> 1, DatastarExtensions |-> 1]


\* The rendered element carries one attribute, and its name (what precedes any
\* sub-key, modifier or value) is `name`.
RenderedAttrNameIs(name) ==
    LET lead == "<" \o el.tag \o " " \o name
        rest == Slice(out, Len(lead) + 1, Len(out))
    IN  /\ HasPrefix(out, lead)
        /\ \/ HasPrefix(rest, ":")
           \/ HasPrefix(rest, "__")
           \/ HasPrefix(rest, "=")
           \/ HasPrefix(rest, ">")

\* C9: the Key of every catalog entry is the wire attribute name: what the entry's
\* builder method renders is named "data-" plus the Key, and that is what the tests
\* expect of it, for DatastarClass ("data-class") and DatastarStyle ("data-style")
\* in particular.
C9_KeyIsWireName ==
    rendered /\ Len(el.attrs) = 1 =>
        /\ RenderedAttrNameIs("data-" \o DatastarExtensionsLiteral[el.attrs[1].entry].Key)
        /\ test # 0 => out = ExpectedAt(test)

Contains(s, sub) ==
    \E i \in 1..(Len(s) - Len(sub) + 1) : Slice(s, i, i + Len(sub) - 1) = sub

\* The rendering carries the attribute of the entry for the sub-key: its name
\* followed by a modifier, the value, or the end of a bare attribute.
RendersAttr(s, entry, subkey) ==
    LET name == " data-" \o DatastarExtensionsLiteral[entry].Key
                    \o (IF subkey # "" THEN ":" \o subkey ELSE "")
    IN  \E d \in {"=", "__", ">", " "} : Contains(s, name \o d)

\* The last builder call on el was an unset: <ATTR>Remove, or <ATTR>Set(false).
LastWasUnset == last.form = "remove" \/ (last.form = "setbool" /\ ~last.cond)

\* C11: after <ATTR>Remove(subkey), or <ATTR>Set(false) of a boolean attribute, the
\* element carries no attribute of that entry and sub-key, whether or not it was
\* set before; its other attributes are as they were, so that it renders as the
\* element on which the attribute was never set: the rendering has no such
\* attribute, and for the cases of the tests it is the Expected "<div></div>".
C11_SetThenUnsetCancels ==
    LastWasUnset =>
        /\ \A k \in 1..Len(el.attrs) :
              ~(el.attrs[k].entry = last.attr.entry /\ el.attrs[k].subkey = last.attr.subkey)
        /\ el.attrs = SelectSeq(last.before.attrs,
                                LAMBDA x : ~(x.entry = last.attr.entry
                                             /\ x.subkey = last.attr.subkey))
        /\ rendered =>
              /\ ~RendersAttr(out, last.attr.entry, last.attr.subkey)
              /\ \A k \in 1..Len(el.attrs) :
                    RendersAttr(out, el.attrs[k].entry, el.attrs[k].subkey)
              /\ (el.attrs = << >> => out = "<" \o el.tag \o "></" \o el.tag \o ">")
              /\ (test # 0 => out = ExpectedAt(test))

\* DatastarText was set, then DatastarAttr for "title", which was removed again.
C11_Witness ==
    /\ rendered
    /\ last.form = "remove"
    /\ last.attr.entry = 1
    /\ last.attr.subkey = "title"
    /\ last.before.attrs = <<Attr(21, "", "$foo", << >>), Attr(1, "title", "$foo", << >>)>>
    /\ out = "<div data-text=\"$foo\"></div>"

\* The number of positions of s at which sub occurs.
CountOf(s, sub) ==
    Cardinality({i \in 1..(Len(s) - Len(sub) + 1) : Slice(s, i, i + Len(sub) - 1) = sub})

\* The rendering of an element with the one attribute a, split around the modifier
\* segments: up to the key and sub-key, and from the value on.
HeadOf(a) ==
    "<" \o el.tag \o " data-" \o DatastarExtensionsLiteral[a.entry].Key
        \o (IF a.subkey # "" THEN ":" \o a.subkey ELSE "")

TailOf(a) ==
    (IF DatastarExtensionsLiteral[a.entry].Base = AttributeTypeBool
     THEN "" ELSE "=\"" \o a.expr \o "\"") \o "></" \o el.tag \o ">"

IsDurationMod(m) ==
    HeapLiteral[m.ptr].Type.Base \in {AttributeTypeDurationMs, AttributeTypeDurationSec}

\* The duration of a builder call (in milliseconds) as the whole number of the
\* modifier's unit it amounts to: n milliseconds, or the n with n * 1000 = dur.
WholeUnits(m) ==
    IF HeapLiteral[m.ptr].Type.Base = AttributeTypeDurationMs
    THEN ToString(m.dur)
    ELSE ToString(CHOOSE n \in 0..m.dur : n * 1000 = m.dur)

\* C13: a duration-valued modifier renders as "__", its Prefix, the duration as a
\* whole number of its unit (milliseconds or seconds), its Suffix, and nothing more
\* before the next segment or the value: 500 ms on DebounceMsLeading renders
\* "__debounce.500ms.leading", 2 s on DebounceSec "__debounce.2s"; the cases of
\* TestDatastarOn and TestDataOnInterval render as Expected.
C13_DurationSegment ==
    rendered /\ Len(el.attrs) = 1 =>
        LET a == el.attrs[1]
        IN  /\ \A k \in 1..Len(a.mods) :
                  IsDurationMod(a.mods[k]) =>
                      \E d \in {"__", "=", ">"} :
                          Contains(out, "__" \o HeapLiteral[a.mods[k].ptr].Prefix
                                             \o WholeUnits(a.mods[k])
                                             \o HeapLiteral[a.mods[k].ptr].Suffix \o d)
            /\ (a.mods = <<ModArg(AddrOf("DebounceMsLeading"), "", 500)>> =>
                    out = HeadOf(a) \o "__debounce.500ms.leading" \o TailOf(a))
            /\ (a.mods = <<ModArg(AddrOf("DebounceSec"), "", 2000)>> =>
                    out = HeadOf(a) \o "__debounce.2s" \o TailOf(a))
            /\ (a.mods = <<ModArg(AddrOf("DurationSecLeading"), "", 2000)>> =>
                    out = HeadOf(a) \o "__duration.2s.leading" \o TailOf(a))
            /\ (test \in {174, 178} \/ (test >= 237 /\ test <= 252) => out = ExpectedAt(test))

C13_Witness ==
    /\ rendered
    /\ test = 0
    /\ el = [tag |-> "div",
             attrs |-> <<Attr(11, "", "$foo",
                              <<ModArg(AddrOf("DebounceMsLeading"), "", 500)>>)>>]
    /\ out = "<div data-on__debounce.500ms.leading=\"$foo\"></div>"

NamePart(s) == Cut(s, "=").before

C16_BooleanRendersBare ==
    rendered /\ Len(el.attrs) = 1 =>
        LET a == el.attrs[1]
            e == DatastarExtensionsLiteral[a.entry]
        IN  /\ e.Base = AttributeTypeBool =>
                  /\ ~Contains(out, "=")
                  /\ ~Contains(out, "\"")
                  /\ out = "<" \o el.tag \o " data-" \o e.Key \o ModSegments(a.mods)
                               \o "></" \o el.tag \o ">"
                  /\ (a.mods = << >> => out = "<" \o el.tag \o " data-" \o e.Key
                                                  \o "></" \o el.tag \o ">")
                  /\ (e.Name = "DatastarIgnore" /\ a.mods = <<ModArg(AddrOf("Self"), "", 0)>>
                        => out = "<" \o el.tag \o " data-ignore__self></" \o el.tag \o ">")
                  /\ (test # 0 => out = ExpectedAt(test))
            /\ e.Name \in {"DatastarIgnore", "DatastarIgnoreMorph"} => e.Base = AttributeTypeBool
            /\ \A k \in 1..Len(a.mods) :
                  HeapLiteral[a.mods[k].ptr].Type.Base = AttributeTypeBool =>
                      \E d \in {"__", "=", ">"} :
                          Contains(out, "__" \o HeapLiteral[a.mods[k].ptr].Prefix \o d)

C16_Witness ==
    /\ rendered
    /\ test = 0
    /\ last.form = "set"
    /\ el = [tag |-> "div", attrs |-> <<Attr(6, "", "", <<ModArg(AddrOf("Self"), "", 0)>>)>>]
    /\ out = "<div data-ignore__self></div>"

\* C17: If<ATTR>(cond, args...) with cond true leaves the element <ATTR>(args...)
\* leaves, which renders with the attribute; with cond false it leaves the element
\* as it was, which renders as before the call; the cases of lines 45 and 84
\* render as Expected.
C17_IfForm ==
    last.form = "if" =>
        /\ last.cond =>
              /\ el = Apply(last.before, Call("set", TRUE, last.attr))
              /\ \E k \in 1..Len(el.attrs) : el.attrs[k] = last.attr
              /\ rendered =>
                    /\ RendersAttr(out, last.attr.entry, last.attr.subkey)
                    /\ out = RenderElement(Apply(last.before, Call("set", TRUE, last.attr)))
        /\ ~last.cond =>
              /\ el = last.before
              /\ rendered => out = RenderElement(last.before)
        /\ rendered /\ test # 0 => out = ExpectedAt(test)

\* IfDATASTAR_ATTR(false, "title", "$foo") on an element that carries data-text.
C17_Witness ==
    /\ rendered
    /\ last.form = "if"
    /\ ~last.cond
    /\ last.attr = Attr(1, "title", "$foo", << >>)
    /\ last.before.attrs = <<Attr(21, "", "$foo", << >>)>>
    /\ out = "<div data-text=\"$foo\"></div>"

\* The documentation check that failed, if the last step of initialisation was one.
DocFailed == pc = "panicked" /\ events # << >> /\ ~events[Len(events)].ok

\* C18: doc aborts with the message its code constructs: for a malformed url the
\* first 30 characters of the description (all of a shorter one) and
\* "...: invalid URL"; for a failed fetch, with or without a response, the error
\* "Failed to fetch url <url> (statusCode=<code>)".
C18_FailureMessages ==
    DocFailed =>
        LET a == DocArgs(events[Len(events)].entry)
            n == IF Len(a.description) < DescCut THEN Len(a.description) ELSE DescCut
        IN  IF events[Len(events)].op = "parse"
            THEN panicValue = [kind |-> "string",
                               msg |-> Slice(a.description, 1, n) \o "...: invalid URL"]
            ELSE /\ panicValue.kind = "error"
                 /\ HasPrefix(panicValue.msg,
                              "Failed to fetch url " \o urlString(cur.url) \o " (statusCode=")

====
